---- MODULE Spec2Model ----
(***************************************************************************)
(* Registry Diff GUI (src/registries/reg_editor.py): the reconciliation    *)
(* core (normalize_lines, deduplicate, find_similar, compute_summary,      *)
(* unified_diff_text, write_names_atomic) and the handlers of MainWindow   *)
(* that drive it (open_registry, open_new, recompute, export_diff,         *)
(* apply_changes).                                                         *)
(*                                                                         *)
(* A Python str is a sequence of one-character strings; a list[str] is a   *)
(* sequence of such sequences.  Offsets into sequences are the source's    *)
(* 0-based ones where an operator takes them as arguments.                 *)
(*                                                                         *)
(* An intermediate result that is used more than once is bound by          *)
(*     CHOOSE r \in {F(x) : x \in {e}} : TRUE                              *)
(* which is F(e) with e evaluated once.                                    *)
(***************************************************************************)
EXTENDS Integers, Sequences, FiniteSets, TLC

\* ------------------------------------------------------------------------
\* Bounds of the model
\* ------------------------------------------------------------------------

\* longest registry list drawn as input of compute_summary
MaxReg == 4
\* longest candidate list drawn as input of compute_summary
MaxNew == 2
\* longest name list handed to write_names_atomic in the round-trip runs
MaxNames == 3
\* number of user actions explored in the application runs
MaxSteps == 3

\* ------------------------------------------------------------------------
\* Characters and strings
\* ------------------------------------------------------------------------

\* code points of the characters that occur in names; Python compares str
\* values code point by code point
Ord(c) ==
  CASE c = "\t" -> 9
    [] c = "\n" -> 10
    [] c = "\r" -> 13
    [] c = " "  -> 32
    [] c = "a"  -> 97
    [] c = "b"  -> 98
    [] c = "c"  -> 99
    [] c = "d"  -> 100

\* str.__lt__
RECURSIVE StrLess(_, _)
StrLess(a, b) ==
  IF a = <<>> THEN b # <<>>
  ELSE IF b = <<>> THEN FALSE
  ELSE IF Head(a) = Head(b) THEN StrLess(Tail(a), Tail(b))
  ELSE Ord(Head(a)) < Ord(Head(b))

\* characters str.strip() removes
Whitespace == {" ", "\t", "\n", "\r"}

\* line boundaries of str.splitlines() (among the characters modelled)
LineBreaks == {"\n", "\r"}

\* str.strip(): what lies between the first and the last character that is
\* not whitespace
Strip(s) ==
  LET solid == {i \in DOMAIN s : s[i] \notin Whitespace}
  IN IF solid = {} THEN <<>>
     ELSE SubSeq(s, CHOOSE i \in solid : \A j \in solid : i <= j,
                    CHOOSE i \in solid : \A j \in solid : i >= j)

\* where the line boundaries of text start: at a line break that is not the
\* "\n" of a "\r\n"
BoundaryStarts(text) ==
  {i \in DOMAIN text :
     /\ text[i] \in LineBreaks
     /\ ~(text[i] = "\n" /\ i > 1 /\ text[i - 1] = "\r")}

\* the lines of text given its boundaries: line k runs from the end of
\* boundary k-1 to the start of boundary k; a final line is emitted only
\* when text follows the last boundary
LinesAt(text, starts) ==
  LET stop(i) == IF text[i] = "\r" /\ i < Len(text) /\ text[i + 1] = "\n"
                 THEN i + 1 ELSE i
      kth(k) == CHOOSE i \in starts : Cardinality({j \in starts : j < i}) = k - 1
      from(k) == IF k = 1 THEN 1 ELSE stop(kth(k - 1)) + 1
      n == Cardinality(starts)
      whole == [k \in 1 .. n |-> SubSeq(text, from(k), kth(k) - 1)]
  IN IF from(n + 1) <= Len(text)
     THEN Append(whole, SubSeq(text, from(n + 1), Len(text)))
     ELSE whole

\* str.splitlines(keepends=False)
SplitLines(text) ==
  CHOOSE r \in {LinesAt(text, starts) : starts \in {BoundaryStarts(text)}} : TRUE

\* sep.join(parts)
RECURSIVE Join(_, _)
Join(sep, parts) ==
  IF parts = <<>> THEN <<>>
  ELSE IF Len(parts) = 1 THEN parts[1]
  ELSE parts[1] \o sep \o Join(sep, Tail(parts))

\* [ln.strip() for ln in lines if ln.strip()]
RECURSIVE NonEmptyStripped(_)
NonEmptyStripped(lines) ==
  IF lines = <<>> THEN <<>>
  ELSE (IF Strip(Head(lines)) # <<>> THEN <<Strip(Head(lines))>> ELSE <<>>)
       \o NonEmptyStripped(Tail(lines))

normalize_lines(text) ==
  CHOOSE r \in {NonEmptyStripped(lines) : lines \in {SplitLines(text)}} : TRUE

Range(s) == {s[i] : i \in DOMAIN s}

\* the keys of a dict (or Counter) filled from items, and the loop of
\* write_names_atomic: each item at its first occurrence
FirstSeen(items) ==
  LET first == {i \in DOMAIN items : \A j \in 1 .. (i - 1) : items[j] # items[i]}
      kth(k) == CHOOSE i \in first : Cardinality({j \in first : j < i}) = k - 1
  IN [k \in 1 .. Cardinality(first) |-> items[kth(k)]]

Count(items, k) == Cardinality({i \in DOMAIN items : items[i] = k})

\* deduplicate(items): (list(c.keys()), dups)
deduplicate(items) ==
  [keys |-> FirstSeen(items),
   dups |-> [k \in {x \in Range(items) : Count(items, x) > 1} |-> Count(items, k)]]

\* sorted(list[str]) / list.sort(): insertion into an ascending list
RECURSIVE Insert(_, _)
Insert(x, s) ==
  IF s = <<>> THEN <<x>>
  ELSE IF StrLess(x, Head(s)) THEN <<x>> \o s
  ELSE <<Head(s)>> \o Insert(x, Tail(s))

\* sorted() left out: the list as built
unsorted(s) == s

\* sorted(s)
RECURSIVE Sorted(_)
Sorted(s) ==
  IF s = <<>> THEN <<>>
  ELSE CHOOSE r \in {Insert(Head(s), t) : t \in {Sorted(Tail(s))}} : TRUE

\* ------------------------------------------------------------------------
\* difflib.SequenceMatcher (isjunk=None; the autojunk heuristic needs a
\* second sequence of 200 elements or more and never applies here)
\* ------------------------------------------------------------------------

RECURSIVE RunLen(_, _, _, _, _, _)
RunLen(a, b, i, j, ahi, bhi) ==
  IF i < ahi /\ j < bhi /\ a[i + 1] = b[j + 1]
  THEN 1 + RunLen(a, b, i + 1, j + 1, ahi, bhi)
  ELSE 0

\* the blocks a[i:i+k] = b[j:j+k], k > 0, as long as they can be, that start
\* at each i in [alo, ahi) and j in [blo, bhi)
Runs(a, b, alo, ahi, blo, bhi) ==
  {r \in {<<i, j, RunLen(a, b, i, j, ahi, bhi)>> :
            i \in alo .. (ahi - 1), j \in blo .. (bhi - 1)} : r[3] > 0}

\* of the longest blocks the one starting earliest in a, and of those the one
\* starting earliest in b; (alo, blo, 0) when there is none
LongestOf(hits, alo, blo) ==
  IF hits = {} THEN <<alo, blo, 0>>
  ELSE CHOOSE r \in hits :
         \A q \in hits :
           \/ r[3] > q[3]
           \/ r[3] = q[3] /\ r[1] < q[1]
           \/ r[3] = q[3] /\ r[1] = q[1] /\ r[2] <= q[2]

\* SequenceMatcher.find_longest_match
find_longest_match(a, b, alo, ahi, blo, bhi) ==
  CHOOSE m \in {LongestOf(hits, alo, blo) :
                  hits \in {Runs(a, b, alo, ahi, blo, bhi)}} : TRUE

\* the blocks get_matching_blocks collects, in increasing order: the longest
\* match m of the range, between those to its left and those to its right
RECURSIVE MatchingBlocksIn(_, _, _, _, _, _)
BlocksAround(a, b, alo, ahi, blo, bhi, m) ==
  IF m[3] = 0 THEN <<>>
  ELSE (IF alo < m[1] /\ blo < m[2]
        THEN MatchingBlocksIn(a, b, alo, m[1], blo, m[2]) ELSE <<>>)
       \o <<m>>
       \o (IF m[1] + m[3] < ahi /\ m[2] + m[3] < bhi
           THEN MatchingBlocksIn(a, b, m[1] + m[3], ahi, m[2] + m[3], bhi)
           ELSE <<>>)

MatchingBlocksIn(a, b, alo, ahi, blo, bhi) ==
  CHOOSE r \in {BlocksAround(a, b, alo, ahi, blo, bhi, m) :
                  m \in {find_longest_match(a, b, alo, ahi, blo, bhi)}} : TRUE

\* adjacent blocks are merged into one
RECURSIVE Collapse(_, _)
Collapse(blocks, cur) ==
  IF blocks = <<>> THEN (IF cur[3] > 0 THEN <<cur>> ELSE <<>>)
  ELSE IF cur[1] + cur[3] = blocks[1][1] /\ cur[2] + cur[3] = blocks[1][2]
       THEN CHOOSE r \in {Collapse(Tail(blocks), c) :
                            c \in {<<cur[1], cur[2], cur[3] + blocks[1][3]>>}} : TRUE
       ELSE (IF cur[3] > 0 THEN <<cur>> ELSE <<>>)
            \o Collapse(Tail(blocks), blocks[1])

\* SequenceMatcher.get_matching_blocks: ends with the sentinel (la, lb, 0)
get_matching_blocks(a, b) ==
  CHOOSE r \in {Collapse(blocks, <<0, 0, 0>>) \o <<<<Len(a), Len(b), 0>>>> :
                  blocks \in {MatchingBlocksIn(a, b, 0, Len(a), 0, Len(b))}} : TRUE

RECURSIVE SumSizes(_)
SumSizes(blocks) ==
  IF blocks = <<>> THEN 0 ELSE Head(blocks)[3] + SumSizes(Tail(blocks))

\* A ratio 2.0*matches/length is kept as the pair <<2*matches, length>>;
\* _calculate_ratio returns 1.0 for length 0
calculate_ratio(matches, length) ==
  IF length > 0 THEN <<2 * matches, length>> ELSE <<1, 1>>

\* SequenceMatcher.ratio, a the first and b the second sequence
ratio(a, b) ==
  CHOOSE r \in {calculate_ratio(SumSizes(blocks), Len(a) + Len(b)) :
                  blocks \in {get_matching_blocks(a, b)}} : TRUE

\* SequenceMatcher.quick_ratio: an element of a matches while b still has
\* occurrences of it left
quick_ratio(a, b) ==
  calculate_ratio(
    Cardinality({i \in DOMAIN a :
                   Cardinality({j \in 1 .. i : a[j] = a[i]}) <= Count(b, a[i])}),
    Len(a) + Len(b))

\* SequenceMatcher.real_quick_ratio
real_quick_ratio(a, b) ==
  calculate_ratio(IF Len(a) < Len(b) THEN Len(a) ELSE Len(b), Len(a) + Len(b))

\* r >= cutoff, the cutoff given in hundredths (slider value / 100.0)
AtLeast(r, pct) == r[1] * 100 >= pct * r[2]

\* (score, x) > (score', x') on Python tuples
PairGreater(p, q) ==
  \/ p[1][1] * q[1][2] > q[1][1] * p[1][2]
  \/ p[1][1] * q[1][2] = q[1][1] * p[1][2] /\ StrLess(q[2], p[2])

\* heapq.nlargest(n, result): sorted(result, reverse=True)[:n]
RECURSIVE InsertDesc(_, _)
InsertDesc(p, s) ==
  IF s = <<>> THEN <<p>>
  ELSE IF PairGreater(p, Head(s)) THEN <<p>> \o s
  ELSE <<Head(s)>> \o InsertDesc(p, Tail(s))

RECURSIVE SortedDesc(_)
SortedDesc(s) ==
  IF s = <<>> THEN <<>>
  ELSE CHOOSE r \in {InsertDesc(Head(s), t) : t \in {SortedDesc(Tail(s))}} : TRUE

nlargest(n, result) ==
  CHOOSE r \in {SubSeq(s, 1, IF Len(s) < n THEN Len(s) ELSE n) :
                  s \in {SortedDesc(result)}} : TRUE

\* the (score, x) pair of a possibility x that passes the three tests of
\* get_close_matches; seq2 is the word and seq1 is x
ScoredOne(word, x, cutoff) ==
  IF AtLeast(real_quick_ratio(x, word), cutoff) /\ AtLeast(quick_ratio(x, word), cutoff)
  THEN CHOOSE r \in {IF AtLeast(s, cutoff) THEN <<<<s, x>>>> ELSE <<>> :
                       s \in {ratio(x, word)}} : TRUE
  ELSE <<>>

RECURSIVE Scored(_, _, _)
Scored(word, possibilities, cutoff) ==
  IF possibilities = <<>> THEN <<>>
  ELSE ScoredOne(word, Head(possibilities), cutoff)
       \o Scored(word, Tail(possibilities), cutoff)

\* difflib.get_close_matches(word, possibilities, n, cutoff)
get_close_matches(word, possibilities, n, cutoff) ==
  CHOOSE r \in {[i \in DOMAIN best |-> best[i][2]] :
                  best \in {nlargest(n, Scored(word, possibilities, cutoff))}} : TRUE

\* [m for m in s if m != name]
RECURSIVE Without(_, _)
Without(s, name) ==
  IF s = <<>> THEN <<>>
  ELSE (IF Head(s) # name THEN <<Head(s)>> ELSE <<>>) \o Without(Tail(s), name)

\* the n=3 of find_similar
MaxMatches == 3

\* find_similar with the cutoff left out
find_similar_no_cutoff(name, base, threshold) ==
  CHOOSE r \in {Without(close, name) :
                  close \in {get_close_matches(name, base, MaxMatches, 0)}} : TRUE

\* find_similar; threshold in hundredths
find_similar(name, base, threshold) ==
  CHOOSE r \in {Without(close, name) :
                  close \in {get_close_matches(name, base, MaxMatches, threshold)}} : TRUE

\* ------------------------------------------------------------------------
\* Core processing
\* ------------------------------------------------------------------------

\* the test n in base_set always false: every candidate is added
select_never_member(s, base_set, member) == IF member THEN <<>> ELSE s

\* [n for n in s if (n in base_set) = member]
RECURSIVE Select(_, _, _)
Select(s, base_set, member) ==
  IF s = <<>> THEN <<>>
  ELSE (IF (Head(s) \in base_set) = member THEN <<Head(s)>> ELSE <<>>)
       \o Select(Tail(s), base_set, member)

\* the dict sim of compute_summary, from the (n, matches) pairs of the names
\* added: a name is a key when its matches are not empty
SimilarOf(pairs) ==
  [n \in {p[1] : p \in {q \in pairs : q[2] # <<>>}} |->
     (CHOOSE p \in pairs : p[1] = n)[2]]

\* the loop of compute_summary (lines 131-144) over the candidates new
Classify(base, new, threshold) ==
  CHOOSE r \in
    {[to_add |-> Sorted(to_add),
      duplicates |-> Sorted(Select(new, Range(base), TRUE)),
      similar |-> SimilarOf({<<n, find_similar(n, base, threshold)>> :
                               n \in Range(to_add)})] :
       to_add \in {Select(new, Range(base), FALSE)}} : TRUE

\* compute_summary: Summary(to_add, duplicates, similar, input_dups);
\* input_dups is None when has_input_dups is FALSE.  threshold is in
\* hundredths.
compute_summary(registry, new_raw, dedup_input, threshold) ==
  CHOOSE r \in
    {[to_add |-> c.to_add,
      duplicates |-> c.duplicates,
      similar |-> c.similar,
      has_input_dups |-> dedup_input,
      input_dups |-> IF dedup_input THEN deduplicate(new_raw).dups ELSE <<>>] :
       c \in {Classify(registry,
                       IF dedup_input THEN deduplicate(new_raw).keys ELSE new_raw,
                       threshold)}} : TRUE

\* ------------------------------------------------------------------------
\* difflib.unified_diff
\* ------------------------------------------------------------------------

Min(x, y) == IF x < y THEN x ELSE y
Max(x, y) == IF x > y THEN x ELSE y

\* SequenceMatcher.get_opcodes: (tag, i1, i2, j1, j2) from the matching
\* blocks, i and j the ends of the previous block
RECURSIVE Opcodes(_, _, _)
Opcodes(blocks, i, j) ==
  IF blocks = <<>> THEN <<>>
  ELSE LET ai == blocks[1][1]
           bj == blocks[1][2]
           size == blocks[1][3]
           tag == IF i < ai /\ j < bj THEN "replace"
                  ELSE IF i < ai THEN "delete"
                  ELSE IF j < bj THEN "insert"
                  ELSE ""
       IN (IF tag # "" THEN <<<<tag, i, ai, j, bj>>>> ELSE <<>>)
          \o (IF size > 0 THEN <<<<"equal", ai, ai + size, bj, bj + size>>>> ELSE <<>>)
          \o Opcodes(Tail(blocks), ai + size, bj + size)

get_opcodes(a, b) ==
  CHOOSE r \in {Opcodes(blocks, 0, 0) : blocks \in {get_matching_blocks(a, b)}} : TRUE

\* the loop of get_grouped_opcodes over the trimmed codes
RECURSIVE GroupLoop(_, _, _)
GroupLoop(codes, group, n) ==
  IF codes = <<>>
  THEN (IF group # <<>> /\ ~(Len(group) = 1 /\ group[1][1] = "equal")
        THEN <<group>> ELSE <<>>)
  ELSE LET c == codes[1]
       IN IF c[1] = "equal" /\ c[3] - c[2] > n + n
          THEN <<Append(group, <<c[1], c[2], Min(c[3], c[2] + n),
                                 c[4], Min(c[5], c[4] + n)>>)>>
               \o GroupLoop(Tail(codes),
                            <<<<c[1], Max(c[2], c[3] - n), c[3],
                                Max(c[4], c[5] - n), c[5]>>>>, n)
          ELSE CHOOSE r \in {GroupLoop(Tail(codes), g, n) :
                               g \in {Append(group, c)}} : TRUE

\* get_grouped_opcodes: a leading "equal" code keeps its last n lines
TrimFirst(codes, n) ==
  LET f == codes[1]
  IN IF f[1] = "equal"
     THEN [i \in DOMAIN codes |->
             IF i = 1
             THEN <<f[1], Max(f[2], f[3] - n), f[3], Max(f[4], f[5] - n), f[5]>>
             ELSE codes[i]]
     ELSE codes

\* get_grouped_opcodes: a trailing "equal" code keeps its first n lines
TrimLast(codes, n) ==
  LET t == codes[Len(codes)]
  IN IF t[1] = "equal"
     THEN [i \in DOMAIN codes |->
             IF i = Len(codes)
             THEN <<t[1], t[2], Min(t[3], t[2] + n), t[4], Min(t[5], t[4] + n)>>
             ELSE codes[i]]
     ELSE codes

\* SequenceMatcher.get_grouped_opcodes(n)
get_grouped_opcodes(a, b, n) ==
  CHOOSE r \in
    {GroupLoop(trimmed, <<>>, n) :
       trimmed \in
         {TrimLast(first, n) :
            first \in
              {TrimFirst(IF raw = <<>> THEN <<<<"equal", 0, 1, 0, 1>>>> ELSE raw, n) :
                 raw \in {get_opcodes(a, b)}}}} : TRUE

\* '{}'.format(k) for an int k >= 0
DigitChars == <<"0", "1", "2", "3", "4", "5", "6", "7", "8", "9">>

RECURSIVE FormatInt(_)
FormatInt(k) ==
  IF k < 10 THEN <<DigitChars[k + 1]>>
  ELSE FormatInt(k \div 10) \o <<DigitChars[(k % 10) + 1]>>

\* difflib._format_range_unified
format_range_unified(start, stop) ==
  LET length == stop - start
      beginning == IF length = 0 THEN start ELSE start + 1
  IN IF length = 1 THEN FormatInt(start + 1)
     ELSE FormatInt(beginning) \o <<",">> \o FormatInt(length)

\* prefix + line for each line of s[lo:hi]
Prefixed(prefix, s, lo, hi) ==
  [k \in 1 .. (hi - lo) |-> <<prefix>> \o s[lo + k]]

\* the lines of one opcode of a group
OpLines(a, b, op) ==
  IF op[1] = "equal" THEN Prefixed(" ", a, op[2], op[3])
  ELSE (IF op[1] \in {"replace", "delete"}
        THEN Prefixed("-", a, op[2], op[3]) ELSE <<>>)
       \o (IF op[1] \in {"replace", "insert"}
           THEN Prefixed("+", b, op[4], op[5]) ELSE <<>>)

RECURSIVE GroupLines(_, _, _)
GroupLines(a, b, group) ==
  IF group = <<>> THEN <<>>
  ELSE OpLines(a, b, group[1]) \o GroupLines(a, b, Tail(group))

\* the hunk header and lines of each group; lineterm is "\n"
RECURSIVE Hunks(_, _, _)
Hunks(a, b, groups) ==
  IF groups = <<>> THEN <<>>
  ELSE LET first == groups[1][1]
           last_ == groups[1][Len(groups[1])]
       IN <<<<"@", "@", " ", "-">> \o format_range_unified(first[2], last_[3])
              \o <<" ", "+">> \o format_range_unified(first[4], last_[5])
              \o <<" ", "@", "@", "\n">>>>
          \o GroupLines(a, b, groups[1])
          \o Hunks(a, b, Tail(groups))

\* difflib.unified_diff(a, b, fromfile, tofile, n=n): the lines it yields
unified_diff(a, b, fromfile, tofile, n) ==
  CHOOSE r \in
    {IF groups = <<>> THEN <<>>
     ELSE <<<<"-", "-", "-", " ">> \o fromfile \o <<"\n">>,
            <<"+", "+", "+", " ">> \o tofile \o <<"\n">>>>
          \o Hunks(a, b, groups) :
       groups \in {get_grouped_opcodes(a, b, n)}} : TRUE

unified_diff_text(before, after, from_name, to_name, context) ==
  CHOOSE r \in {Join(<<"\n">>, diff) :
                  diff \in {unified_diff(before, after, from_name, to_name, context)}} : TRUE

\* ------------------------------------------------------------------------
\* Files.  A file is [exists, data]; fs maps each path to its file.
\* ------------------------------------------------------------------------

NoFile == [exists |-> FALSE, data |-> <<>>]
File(data) == [exists |-> TRUE, data |-> data]

\* the paths the file dialogs offer
RegPath == "registry.txt"
NewPath == "names.txt"
PatchPath == "changes.patch"

\* path + ".bak"
Bak(path) == IF path = RegPath THEN "registry.txt.bak" ELSE "other.bak"

Paths == {RegPath, Bak(RegPath), NewPath, PatchPath}

\* how a write can fail: QSaveFile.open fails, the stream's write fails (and
\* commit then refuses), or commit itself fails
FailModes == {"none", "open", "write", "commit"}

\* "\n".join(unique) + "\n" if unique else ""
JoinedLines(unique) ==
  IF unique # <<>> THEN Join(<<"\n">>, unique) \o <<"\n">> ELSE <<>>

\* the data write_names_atomic writes (lines 59-67)
serialize(names, sort_output) ==
  CHOOSE r \in {JoinedLines(unique) :
                  unique \in {IF sort_output THEN Sorted(FirstSeen(names))
                              ELSE FirstSeen(names)}} : TRUE

\* write_names_atomic straight into the target (QFile instead of QSaveFile):
\* opening truncates the file, a write error leaves it cut short
write_names_in_place(files, path, names, sort_output, fail) ==
  IF fail = "open" THEN [fs |-> files, raised |-> TRUE]
  ELSE IF fail = "write"
       THEN [fs |-> [files EXCEPT ![path] = File(<<>>)], raised |-> TRUE]
  ELSE [fs |-> [files EXCEPT ![path] = File(serialize(names, sort_output))],
        raised |-> fail # "none"]

\* write_names_atomic without the loop of lines 59-64
write_names_no_dedup(files, path, names, sort_output, fail) ==
  IF fail = "none"
  THEN [fs |-> [files EXCEPT ![path] =
                  File(JoinedLines(IF sort_output THEN Sorted(names) ELSE names))],
        raised |-> FALSE]
  ELSE [fs |-> files, raised |-> TRUE]

\* write_names_atomic: QSaveFile writes a temporary file and commit() renames
\* it over the target; on any failure the temporary file is discarded, the
\* target is left as it was and OSError is raised
write_names_atomic(files, path, names, sort_output, fail) ==
  IF fail = "open" THEN [fs |-> files, raised |-> TRUE]
  ELSE IF fail = "none"
       THEN [fs |-> [files EXCEPT ![path] = File(serialize(names, sort_output))],
             raised |-> FALSE]
  ELSE [fs |-> files, raised |-> TRUE]

\* read_names: FileNotFoundError when the file is missing, OSError when it
\* cannot be opened
read_names(files, path, cannot_open) ==
  IF ~files[path].exists THEN [raised |-> TRUE, names |-> <<>>]
  ELSE IF cannot_open THEN [raised |-> TRUE, names |-> <<>>]
  ELSE [raised |-> FALSE, names |-> normalize_lines(files[path].data)]

\* ------------------------------------------------------------------------
\* MainWindow.  Widgets that only show text derived from the rest (the
\* title labels, the statistics label, the status bar) are left out.
\* ------------------------------------------------------------------------

VARIABLES
  txt_registry,    \* text of the registry box
  txt_new,         \* text of the new-names box
  txt_diff,        \* text of the read-only diff box
  list_add,        \* items of the "To Add" list
  list_dup,        \* items of the "Duplicates" list
  list_sim,        \* items of the "Similarity suggestions" list
  chk_backup,      \* "Create .bak backup"
  chk_sort,        \* "Sort on save"
  chk_dedup,       \* "Deduplicate new names"
  sim_slider,      \* similarity threshold, in hundredths
  registry_path,   \* NoPath for None
  additions_path,  \* NoPath for None
  fs,              \* the files on disk
  last,            \* the last handler run, the message boxes it showed and
                   \* the write_names_atomic calls it made
  steps,           \* number of user actions so far
  rt               \* a write_names_atomic / read_names pair run on its own

vars == <<txt_registry, txt_new, txt_diff, list_add, list_dup, list_sim,
          chk_backup, chk_sort, chk_dedup, sim_slider, registry_path,
          additions_path, fs, last, steps, rt>>

view == <<txt_diff, list_add, list_dup, list_sim>>
options == <<chk_backup, chk_sort, chk_dedup, sim_slider>>

NoPath == ""

\* QSlider range and start value (setRange(60, 95), setValue(80))
SliderMin == 60
SliderMax == 95
SliderStart == 80
SliderValues == {SliderMin, SliderStart, SliderMax}

\* context=3 of recompute
Context == 3

\* the names the inputs are built from
NameSet == {<<"a", "b">>, <<"a", "b", "c">>, <<"a", "b", "d">>}

\* all lists of at most n of the given names
RECURSIVE ListsUpTo(_, _)
ListsUpTo(names, n) ==
  IF n = 0 THEN {<<>>}
  ELSE CHOOSE r \in
         {shorter \cup {Append(l, x) : l \in {m \in shorter : Len(m) = n - 1},
                                        x \in names} :
            shorter \in {ListsUpTo(names, n - 1)}} : TRUE

\* what a user types or pastes into a text box: nothing, or one name
TypedTexts == {<<>>} \cup NameSet

\* the registry file at start: missing, or two names out of order, with CRLF
\* line ends, padding and a blank line
RegistryAtStart ==
  {NoFile,
   File(<<" ", "a", "b", "d", "\t", "\r", "\n", "\r", "\n", "a", "b", "\r", "\n">>)}

\* the new-names file at start: two names, one of them twice
NamesAtStart ==
  {File(<<"a", "b", "c", "\n", "a", "b", "\n", "a", "b", "c", "\n">>)}

RegistryLabel == <<"r", "e", "g", "i", "s", "t", "r", "y", ".", "t", "x", "t">>
UpdatedLabel ==
  <<"r", "e", "g", "i", "s", "t", "r", "y", "(", "u", "p", "d", "a", "t", "e", "d",
    ")", ".", "t", "x", "t">>

\* Path(path).name
PathName(path) == IF path = RegPath THEN RegistryLabel ELSE <<"?">>

\* sorted(S) for a set S of names
RECURSIVE SortedSet(_)
SortedSet(S) ==
  IF S = {} THEN <<>>
  ELSE CHOOSE r \in {Insert(x, SortedSet(S \ {x})) : x \in {CHOOSE y \in S : TRUE}} : TRUE

\* MainWindow._summary
summary(registry, new_raw) ==
  compute_summary(registry, new_raw, chk_dedup, sim_slider)

\* one item of the similarity list: f"{k}  ~  {', '.join(v)}"
SimItem(k, v) == k \o <<" ", " ", "~", " ", " ">> \o Join(<<",", " ">>, v)

\* for k, v in sorted(s.similar.items()): the items of the similarity list
SimItems(similar) ==
  CHOOSE r \in {[i \in DOMAIN keys |-> SimItem(keys[i], similar[keys[i]])] :
                  keys \in {SortedSet(DOMAIN similar)}} : TRUE

\* what recompute puts into the lists and the diff box (lines 389-406)
RecomputedFrom(reg, s, path) ==
  [list_add |-> s.to_add,
   list_dup |-> s.duplicates,
   list_sim |-> SimItems(s.similar),
   txt_diff |-> unified_diff_text(reg, SortedSet(Range(reg) \cup Range(s.to_add)),
                  IF path # NoPath THEN PathName(path) ELSE RegistryLabel,
                  UpdatedLabel, Context)]

Recomputed(reg_text, new_text, dedup, threshold, path) ==
  CHOOSE r \in
    {RecomputedFrom(reg, compute_summary(reg, new, dedup, threshold), path) :
       reg \in {normalize_lines(reg_text)}, new \in {normalize_lines(new_text)}} : TRUE

\* setItems / setPlainText of recompute
Show(v) ==
  /\ list_add' = v.list_add
  /\ list_dup' = v.list_dup
  /\ list_sim' = v.list_sim
  /\ txt_diff' = v.txt_diff

\* a QMessageBox (text holds the numbers its message shows) and the record
\* of one handler run
Box(kind, title, text) == [kind |-> kind, title |-> title, text |-> text]
Ran(handler, dialogs, writes) ==
  /\ last' = [handler |-> handler, dialogs |-> dialogs, writes |-> writes]
  /\ steps < MaxSteps
  /\ steps' = steps + 1

\* the record of one write_names_atomic call
Wrote(path, names, sort_output, res) ==
  [path |-> path, names |-> names, sort_output |-> sort_output, raised |-> res.raised]

\* --- the user edits a text box or changes an option -----------------------

TypeRegistry ==
  \E t \in TypedTexts :
    /\ txt_registry' = t
    /\ Ran("edit", <<>>, <<>>)
    /\ UNCHANGED <<txt_new, view, options, registry_path, additions_path, fs, rt>>

TypeNew ==
  \E t \in TypedTexts :
    /\ txt_new' = t
    /\ Ran("edit", <<>>, <<>>)
    /\ UNCHANGED <<txt_registry, view, options, registry_path, additions_path, fs, rt>>

ToggleBackup ==
  /\ chk_backup' = ~chk_backup
  /\ Ran("option", <<>>, <<>>)
  /\ UNCHANGED <<txt_registry, txt_new, view, chk_sort, chk_dedup, sim_slider,
                 registry_path, additions_path, fs, rt>>

ToggleSort ==
  /\ chk_sort' = ~chk_sort
  /\ Ran("option", <<>>, <<>>)
  /\ UNCHANGED <<txt_registry, txt_new, view, chk_backup, chk_dedup, sim_slider,
                 registry_path, additions_path, fs, rt>>

ToggleDedup ==
  /\ chk_dedup' = ~chk_dedup
  /\ Ran("option", <<>>, <<>>)
  /\ UNCHANGED <<txt_registry, txt_new, view, chk_backup, chk_sort, sim_slider,
                 registry_path, additions_path, fs, rt>>

MoveSlider ==
  \E v \in SliderValues \ {sim_slider} :
    /\ sim_slider' = v
    /\ Ran("option", <<>>, <<>>)
    /\ UNCHANGED <<txt_registry, txt_new, view, chk_backup, chk_sort, chk_dedup,
                   registry_path, additions_path, fs, rt>>

\* --- handlers -------------------------------------------------------------

\* _open_file: "" when the dialog is cancelled, else an existing file
OpenChoices(offered) == {NoPath} \cup {p \in offered : fs[p].exists}

open_registry ==
  \E path \in OpenChoices({RegPath}) :
    IF path = NoPath
    THEN /\ Ran("open_registry", <<>>, <<>>)
         /\ UNCHANGED <<txt_registry, txt_new, view, options, registry_path,
                        additions_path, fs, rt>>
    ELSE \E cannot_open \in BOOLEAN :
         \E r \in {read_names(fs, path, cannot_open)} :
           IF r.raised
           THEN /\ Ran("open_registry", <<Box("critical", "Error", <<>>)>>, <<>>)
                /\ UNCHANGED <<txt_registry, txt_new, view, options, registry_path,
                               additions_path, fs, rt>>
           ELSE \E text \in {Join(<<"\n">>, r.names)} :
                \E v \in {Recomputed(text, txt_new, chk_dedup, sim_slider, path)} :
                  /\ registry_path' = path
                  /\ txt_registry' = text
                  /\ Show(v)
                  /\ Ran("open_registry", <<>>, <<>>)
                  /\ UNCHANGED <<txt_new, options, additions_path, fs, rt>>

open_new ==
  \E path \in OpenChoices({NewPath}) :
    IF path = NoPath
    THEN /\ Ran("open_new", <<>>, <<>>)
         /\ UNCHANGED <<txt_registry, txt_new, view, options, registry_path,
                        additions_path, fs, rt>>
    ELSE \E cannot_open \in BOOLEAN :
         \E r \in {read_names(fs, path, cannot_open)} :
           IF r.raised
           THEN /\ Ran("open_new", <<Box("critical", "Error", <<>>)>>, <<>>)
                /\ UNCHANGED <<txt_registry, txt_new, view, options, registry_path,
                               additions_path, fs, rt>>
           ELSE \E text \in {Join(<<"\n">>, r.names)} :
                \E v \in {Recomputed(txt_registry, text, chk_dedup, sim_slider,
                                     registry_path)} :
                  /\ additions_path' = path
                  /\ txt_new' = text
                  /\ Show(v)
                  /\ Ran("open_new", <<>>, <<>>)
                  /\ UNCHANGED <<txt_registry, options, registry_path, fs, rt>>

recompute ==
  \E v \in {Recomputed(txt_registry, txt_new, chk_dedup, sim_slider, registry_path)} :
    /\ Show(v)
    /\ Ran("recompute", <<>>, <<>>)
    /\ UNCHANGED <<txt_registry, txt_new, options, registry_path, additions_path,
                   fs, rt>>

\* _save_file: "" when the dialog is cancelled
SaveChoices(offered) == {NoPath} \cup offered

\* line 294: nothing to export
nothing_to_export(diff) == Strip(diff) = <<>>

export_diff ==
  IF nothing_to_export(txt_diff)
  THEN /\ Ran("export_diff", <<Box("information", "Export Diff", <<>>)>>, <<>>)
       /\ UNCHANGED <<txt_registry, txt_new, view, options, registry_path,
                      additions_path, fs, rt>>
  ELSE \E path \in SaveChoices({PatchPath}) :
         IF path = NoPath
         THEN /\ Ran("export_diff", <<>>, <<>>)
              /\ UNCHANGED <<txt_registry, txt_new, view, options, registry_path,
                             additions_path, fs, rt>>
         ELSE \E fail \in FailModes :
              \E lines \in {SplitLines(txt_diff)} :
              \E w \in {write_names_atomic(fs, path, lines, FALSE, fail)} :
                /\ fs' = w.fs
                /\ Ran("export_diff",
                       IF w.raised THEN <<Box("critical", "Error", <<>>)>> ELSE <<>>,
                       <<Wrote(path, lines, FALSE, w)>>)
                /\ UNCHANGED <<txt_registry, txt_new, view, options,
                               registry_path, additions_path, rt>>

\* lines 336-341: Original, Added, Duplicates ignored, Updated total
DoneText(reg, s, updated) ==
  <<Len(reg), Len(s.to_add), Len(s.duplicates), Len(updated)>>

\* line 308 with the test of the registry left out
nothing_new_to_apply(reg, new) == new = <<>>

\* line 308: nothing to apply
nothing_to_apply(reg, new) == reg = <<>> /\ new = <<>>

\* line 312 with to_add left out
updated_without_additions(reg, to_add, sort) ==
  IF sort THEN SortedSet(Range(reg)) ELSE FirstSeen(reg)

\* line 312: the updated registry
updated_registry(reg, to_add, sort) ==
  IF sort THEN SortedSet(Range(reg) \cup Range(to_add))
  ELSE FirstSeen(reg \o to_add)

\* the outcome of the backup block, from the outcome w of its write
BackupOutcome(w, path, reg, sort, dialogs, escaped) ==
  [fs |-> w.fs,
   writes |-> <<Wrote(Bak(path), reg, sort, w)>>,
   dialogs |-> dialogs,
   escaped |-> escaped]

\* lines 321-326 without the try/except: OSError leaves the handler
backup_unguarded(files, path, reg, sort, fail) ==
  CHOOSE r \in {BackupOutcome(w, path, reg, sort, <<>>, w.raised) :
                  w \in {write_names_atomic(files, Bak(path), reg, sort, fail)}} : TRUE

\* lines 321-326, entered when a backup is wanted and the registry file
\* exists: the except clause turns any failure into a warning
backup(files, path, reg, sort, fail) ==
  CHOOSE r \in {BackupOutcome(w, path, reg, sort,
                              IF w.raised THEN <<Box("warning", "Backup", <<>>)>> ELSE <<>>,
                              FALSE) :
                  w \in {write_names_atomic(files, Bak(path), reg, sort, fail)}} : TRUE

\* line 321 false: no backup is made
no_backup(files) == [fs |-> files, writes |-> <<>>, dialogs |-> <<>>, escaped |-> FALSE]

apply_changes ==
  \E reg \in {normalize_lines(txt_registry)}, new \in {normalize_lines(txt_new)} :
    IF nothing_to_apply(reg, new)
    THEN /\ Ran("apply_changes", <<Box("information", "Apply", <<>>)>>, <<>>)
         /\ UNCHANGED <<txt_registry, txt_new, view, options, registry_path,
                        additions_path, fs, rt>>
    ELSE
      \E s \in {summary(reg, new)} :
      \E updated \in {updated_registry(reg, s.to_add, chk_sort)} :
      \E dest \in (IF registry_path = NoPath THEN SaveChoices({RegPath})
                   ELSE {registry_path}) :
        IF dest = NoPath
        THEN /\ Ran("apply_changes", <<>>, <<>>)
             /\ UNCHANGED <<txt_registry, txt_new, view, options, registry_path,
                            additions_path, fs, rt>>
        ELSE
          \E wanted \in {chk_backup /\ fs[dest].exists} :
          \E bfail \in (IF wanted THEN FailModes ELSE {"none"}) :
          \E b \in {IF wanted THEN backup(fs, dest, reg, chk_sort, bfail)
                    ELSE no_backup(fs)} :
            /\ registry_path' = dest
            /\ UNCHANGED <<txt_new, options, additions_path, rt>>
            /\ IF b.escaped
               THEN /\ fs' = b.fs
                    /\ Ran("apply_changes", b.dialogs, b.writes)
                    /\ UNCHANGED <<txt_registry, view>>
               ELSE
                 \E pfail \in FailModes :
                 \E w \in {write_names_atomic(b.fs, dest, updated, FALSE, pfail)} :
                   /\ fs' = w.fs
                   /\ IF w.raised
                      THEN /\ Ran("apply_changes",
                                  b.dialogs \o <<Box("critical", "Error", <<>>)>>,
                                  b.writes \o <<Wrote(dest, updated, FALSE, w)>>)
                           /\ UNCHANGED <<txt_registry, view>>
                      ELSE
                        \E text \in {Join(<<"\n">>, updated)} :
                        \E v \in {Recomputed(text, txt_new, chk_dedup, sim_slider,
                                             dest)} :
                          /\ txt_registry' = text
                          /\ Show(v)
                          /\ Ran("apply_changes",
                                 b.dialogs \o <<Box("information", "Done",
                                                  DoneText(reg, s, updated))>>,
                                 b.writes \o <<Wrote(dest, updated, FALSE, w)>>)

\* --- the application ------------------------------------------------------

\* MainWindow.__init__
Fresh ==
  /\ txt_registry = <<>>
  /\ txt_new = <<>>
  /\ txt_diff = <<>>
  /\ list_add = <<>>
  /\ list_dup = <<>>
  /\ list_sim = <<>>
  /\ chk_backup = FALSE
  /\ chk_sort = TRUE
  /\ chk_dedup = FALSE
  /\ sim_slider = SliderStart
  /\ registry_path = NoPath
  /\ additions_path = NoPath
  /\ last = [handler |-> "init", dialogs |-> <<>>, writes |-> <<>>]
  /\ steps = 0

Idle == [phase |-> "idle", names |-> <<>>, sort_output |-> FALSE, out |-> <<>>]

Init ==
  /\ Fresh
  /\ \E r \in RegistryAtStart, n \in NamesAtStart :
       fs = [p \in Paths |-> IF p = RegPath THEN r
                             ELSE IF p = NewPath THEN n ELSE NoFile]
  /\ rt = Idle

Next ==
  \/ TypeRegistry
  \/ TypeNew
  \/ ToggleBackup
  \/ ToggleSort
  \/ ToggleDedup
  \/ MoveSlider
  \/ open_registry
  \/ open_new
  \/ recompute
  \/ export_diff
  \/ apply_changes

Spec == Init /\ [][Next]_vars

\* --- compute_summary on its own -------------------------------------------
\* The window right after the user has filled both text boxes and set the
\* options; the only step is recompute, which shows the summary.

InitSummary ==
  /\ \E R \in ListsUpTo(NameSet, MaxReg), C \in ListsUpTo(NameSet, MaxNew) :
       /\ txt_registry = Join(<<"\n">>, R)
       /\ txt_new = Join(<<"\n">>, C)
  /\ txt_diff = <<>>
  /\ list_add = <<>>
  /\ list_dup = <<>>
  /\ list_sim = <<>>
  /\ chk_backup = FALSE
  /\ chk_sort = TRUE
  /\ chk_dedup \in BOOLEAN
  /\ sim_slider \in SliderValues
  /\ registry_path = NoPath
  /\ additions_path = NoPath
  /\ last = [handler |-> "init", dialogs |-> <<>>, writes |-> <<>>]
  /\ steps = 0
  /\ fs = [p \in Paths |-> NoFile]
  /\ rt = Idle

NextSummary == steps = 0 /\ recompute

SpecSummary == InitSummary /\ [][NextSummary]_vars

\* --- write_names_atomic followed by read_names ----------------------------

\* names for the round trip: also one with a blank inside
RoundTripNames == NameSet \cup {<<"a", " ", "b">>}

InitRoundTrip ==
  /\ Fresh
  /\ \E r \in RegistryAtStart : fs = [p \in Paths |-> IF p = RegPath THEN r ELSE NoFile]
  /\ \E N \in ListsUpTo(RoundTripNames, MaxNames), sort_output \in BOOLEAN :
       rt = [phase |-> "idle", names |-> N, sort_output |-> sort_output, out |-> <<>>]

\* write_names_atomic(path, N, sort_output)
RoundTripWrite ==
  /\ rt.phase = "idle"
  /\ \E fail \in FailModes :
     \E w \in {write_names_atomic(fs, RegPath, rt.names, rt.sort_output, fail)} :
       /\ fs' = w.fs
       /\ rt' = [rt EXCEPT !.phase = IF w.raised THEN "failed" ELSE "written"]
  /\ UNCHANGED <<txt_registry, txt_new, view, options, registry_path,
                 additions_path, last, steps>>

\* read_names(path)
RoundTripRead ==
  /\ rt.phase = "written"
  /\ \E cannot_open \in BOOLEAN :
     \E r \in {read_names(fs, RegPath, cannot_open)} :
       rt' = [rt EXCEPT !.phase = IF r.raised THEN "unreadable" ELSE "read",
                        !.out = r.names]
  /\ UNCHANGED <<txt_registry, txt_new, view, options, registry_path,
                 additions_path, fs, last, steps>>

NextRoundTrip == RoundTripWrite \/ RoundTripRead

SpecRoundTrip == InitRoundTrip /\ [][NextRoundTrip]_vars

\* ------------------------------------------------------------------------
\* Properties
\* ------------------------------------------------------------------------

\* the names in the two text boxes
RegistryNames == normalize_lines(txt_registry)
CandidateNames == normalize_lines(txt_new)

IsSorted(s) == \A i \in 1..(Len(s) - 1) : ~StrLess(s[i + 1], s[i])
NoRepeats(s) == \A i, j \in DOMAIN s : i # j => s[i] # s[j]
Occurrences(s, x) == Cardinality({i \in DOMAIN s : s[i] = x})
FirstAt(s, x) == CHOOSE i \in DOMAIN s : s[i] = x /\ \A j \in 1..(i - 1) : s[j] # x

\* similarity ratios <<2M, T>> against a threshold in hundredths
NotBelow(r, pct) == r[1] * 100 >= pct * r[2]
Exceeds(r, pct) == r[1] * 100 > pct * r[2]
NotLessSimilar(r, q) == r[1] * q[2] >= q[1] * r[2]

\* this step ran the handler
Handled(handler) == steps' # steps /\ last'.handler = handler
Showed(log, kind, title) ==
  \E i \in DOMAIN log.dialogs : log.dialogs[i].kind = kind /\ log.dialogs[i].title = title

\* C1: in the summary shown by recompute, every duplicate is a name of the
\* registry, no name to add is one, the two lists share no name, and
\* together they hold exactly the distinct candidate names.
C1_Partition ==
  last.handler = "recompute" =>
    /\ \A n \in Range(list_dup) : n \in Range(RegistryNames)
    /\ \A n \in Range(list_add) : n \notin Range(RegistryNames)
    /\ Range(list_add) \cap Range(list_dup) = {}
    /\ Range(list_add) \cup Range(list_dup) = Range(CandidateNames)

\* a summary with a name to add and a duplicate
C1_Witness ==
  /\ last.handler = "recompute"
  /\ list_add # <<>>
  /\ list_dup # <<>>

\* C2 as stated: to_add and duplicates are sorted and hold no name twice,
\* whatever dedup_input is.
C2_SortedAndDeduplicated ==
  last.handler = "recompute" =>
    /\ IsSorted(list_add) /\ IsSorted(list_dup)
    /\ NoRepeats(list_add) /\ NoRepeats(list_dup)

\* C2 amended: to_add and duplicates are sorted; with dedup_input they hold
\* no name twice, without it every candidate name occurs in its list as often
\* as among the candidates.
C2_SortedDedupOnRequest ==
  last.handler = "recompute" =>
    /\ IsSorted(list_add) /\ IsSorted(list_dup)
    /\ chk_dedup => NoRepeats(list_add) /\ NoRepeats(list_dup)
    /\ ~chk_dedup =>
         \A n \in Range(CandidateNames) :
           Occurrences(list_add \o list_dup, n) = Occurrences(CandidateNames, n)

\* a repeated candidate shown twice in "To Add"
C2_Witness ==
  /\ last.handler = "recompute"
  /\ ~chk_dedup
  /\ ~NoRepeats(list_add)

\* C3: after an apply that wrote the registry, the summary of the updated
\* registry with the same candidates has nothing to add, and applying again
\* would produce the same registry.
C3_ApplyIdempotent ==
  (last.handler = "apply_changes" /\ Showed(last, "information", "Done")) =>
    LET s == summary(RegistryNames, CandidateNames)
    IN /\ s.to_add = <<>>
       /\ list_add = <<>>
       /\ updated_registry(RegistryNames, s.to_add, chk_sort) = RegistryNames

\* an apply that added at least one name
C3_Witness ==
  /\ last.handler = "apply_changes"
  /\ \E i \in DOMAIN last.dialogs :
       last.dialogs[i].title = "Done" /\ last.dialogs[i].text[2] >= 1

\* C4: a write_names_atomic call that fails leaves the file at its path as
\* it was and an error is shown; one that succeeds leaves exactly the new
\* contents there.
C4_Atomicity ==
  [][steps' # steps =>
       \A i \in DOMAIN last'.writes :
         LET wr == last'.writes[i]
         IN IF wr.raised
            THEN /\ fs'[wr.path] = fs[wr.path]
                 /\ Showed(last', "critical", "Error") \/ Showed(last', "warning", "Backup")
            ELSE fs'[wr.path] = File(serialize(wr.names, wr.sort_output))]_vars

\* a failed write over an existing file with other contents
C4_Witness ==
  \E i \in DOMAIN last.writes :
    /\ last.writes[i].raised
    /\ fs[last.writes[i].path].exists
    /\ fs[last.writes[i].path].data
         # serialize(last.writes[i].names, last.writes[i].sort_output)

\* C5: when apply_changes makes a backup, the .bak file holds the names the
\* registry file held just before this apply, in the same order.
C5_BackupHoldsPreviousFile ==
  [][(/\ Handled("apply_changes")
      /\ last'.writes # <<>>
      /\ last'.writes[1].path = Bak(registry_path')
      /\ ~last'.writes[1].raised)
     => normalize_lines(fs'[Bak(registry_path')].data)
          = normalize_lines(fs[registry_path'].data)]_vars

\* C6: when the backup write of apply_changes fails, a warning is shown, the
\* updated registry is still written to the registry path, and if that
\* write succeeds the registry box holds the updated registry.
C6_BackupFailureDoesNotBlock ==
  [][(/\ Handled("apply_changes")
      /\ last'.writes # <<>>
      /\ last'.writes[1].path = Bak(registry_path')
      /\ last'.writes[1].raised)
     => LET updated == updated_registry(RegistryNames,
                         summary(RegistryNames, CandidateNames).to_add, chk_sort)
        IN /\ Showed(last', "warning", "Backup")
           /\ Len(last'.writes) = 2
           /\ last'.writes[2].path = registry_path'
           /\ last'.writes[2].names = updated
           /\ ~last'.writes[2].raised =>
                /\ txt_registry' = Join(<<"\n">>, updated)
                /\ fs'[registry_path'] = File(serialize(updated, FALSE))
                /\ Showed(last', "information", "Done")]_vars

\* an apply whose backup failed and whose registry write succeeded
C6_Witness ==
  /\ last.handler = "apply_changes"
  /\ Len(last.writes) = 2
  /\ last.writes[1].raised
  /\ ~last.writes[2].raised

\* C7: the file export_diff writes holds exactly the lines of the diff text.
C7_ExportVerbatim ==
  [][(/\ Handled("export_diff")
      /\ last'.writes # <<>>
      /\ ~last'.writes[1].raised)
     => SplitLines(fs'[last'.writes[1].path].data) = SplitLines(txt_diff)]_vars

\* C8: reading back what write_names_atomic wrote gives the distinct names
\* of N, in first-occurrence order without sort_output and in lexicographic
\* order with it.
C8_RoundTrip ==
  rt.phase = "read" =>
    /\ Range(rt.out) = Range(rt.names)
    /\ NoRepeats(rt.out)
    /\ IF rt.sort_output THEN IsSorted(rt.out)
       ELSE \A i, j \in DOMAIN rt.out :
              i < j => FirstAt(rt.names, rt.out[i]) < FirstAt(rt.names, rt.out[j])

\* an unsorted N with a repeated name, written unsorted and read back
C8_Witness ==
  /\ rt.phase = "read"
  /\ ~rt.sort_output
  /\ ~NoRepeats(rt.names)
  /\ ~IsSorted(rt.names)
  /\ Len(rt.out) >= 2

\* C9 as stated: apply_changes with both inputs empty or with nothing to add,
\* and export_diff with an empty diff, write no file and show an
\* informational box.
C9_NoOpWritesNothing ==
  [][/\ (Handled("apply_changes")
          /\ summary(RegistryNames, CandidateNames).to_add = <<>>)
        => /\ last'.writes = <<>>
           /\ fs' = fs
     /\ (Handled("export_diff") /\ Strip(txt_diff) = <<>>)
        => /\ last'.writes = <<>>
           /\ fs' = fs]_vars

\* C9 amended: apply_changes with both inputs empty shows "Nothing to
\* apply." and writes nothing, export_diff with an empty diff shows "Nothing
\* to export." and writes nothing; with a registry that is not empty and
\* nothing to add, apply_changes still writes the registry unless Save As
\* is cancelled, and shows "Done" with Added: 0 when that write succeeds.
C9_NoOpOnlyWhenEmpty ==
  [][/\ (Handled("apply_changes") /\ RegistryNames = <<>> /\ CandidateNames = <<>>)
        => /\ last'.dialogs = <<Box("information", "Apply", <<>>)>>
           /\ last'.writes = <<>>
           /\ fs' = fs
     /\ (/\ Handled("apply_changes")
         /\ RegistryNames # <<>>
         /\ summary(RegistryNames, CandidateNames).to_add = <<>>
         /\ registry_path' # NoPath)
        => /\ last'.writes # <<>>
           /\ last'.writes[Len(last'.writes)].path = registry_path'
           /\ ~last'.writes[Len(last'.writes)].raised =>
                \E i \in DOMAIN last'.dialogs :
                  /\ last'.dialogs[i].kind = "information"
                  /\ last'.dialogs[i].title = "Done"
                  /\ last'.dialogs[i].text[2] = 0
     /\ (Handled("export_diff") /\ Strip(txt_diff) = <<>>)
        => /\ last'.dialogs = <<Box("information", "Export Diff", <<>>)>>
           /\ last'.writes = <<>>
           /\ fs' = fs]_vars

\* an apply with nothing to add that wrote the registry
C9_Witness ==
  /\ last.handler = "apply_changes"
  /\ last.writes # <<>>
  /\ ~last.writes[Len(last.writes)].raised
  /\ \E i \in DOMAIN last.dialogs :
       last.dialogs[i].title = "Done" /\ last.dialogs[i].text[2] = 0

\* the length of similar[k], 0 when k is not a key
SimilarLen(similar, k) == IF k \in DOMAIN similar THEN Len(similar[k]) ELSE 0

\* the parts of C10 that do not depend on how the threshold is compared
SimilarShape(R, s) ==
  /\ DOMAIN s.similar \subseteq Range(s.to_add)
  /\ \A k \in DOMAIN s.similar :
       LET v == s.similar[k]
       IN /\ v # <<>>
          /\ Len(v) <= MaxMatches
          /\ \A i \in DOMAIN v : v[i] \in Range(R) /\ v[i] # k
          /\ \A i \in 1..(Len(v) - 1) :
               NotLessSimilar(ratio(v[i], k), ratio(v[i + 1], k))
  /\ \A k \in Range(s.to_add) :
       \A t1, t2 \in SliderValues :
         t1 < t2 =>
           SimilarLen(compute_summary(R, CandidateNames, chk_dedup, t2).similar, k)
             <= SimilarLen(compute_summary(R, CandidateNames, chk_dedup, t1).similar, k)

\* C10 as stated: the shape of similar, with every listed name more similar
\* to its key than the threshold.
C10_SimilarExceedsThreshold ==
  last.handler = "recompute" =>
    LET s == summary(RegistryNames, CandidateNames)
    IN /\ SimilarShape(RegistryNames, s)
       /\ \A k \in DOMAIN s.similar :
            \A i \in DOMAIN s.similar[k] :
              Exceeds(ratio(s.similar[k][i], k), sim_slider)

\* C10 amended: every key of similar is a name to add; every list is not
\* empty, has at most 3 entries, most similar first, all names of the
\* registry other than the key whose similarity to the key is at least the
\* threshold; and a higher threshold never makes a list longer.
C10_SimilarAtLeastThreshold ==
  last.handler = "recompute" =>
    LET s == summary(RegistryNames, CandidateNames)
    IN /\ SimilarShape(RegistryNames, s)
       /\ list_sim = SimItems(s.similar)
       /\ \A k \in DOMAIN s.similar :
            \A i \in DOMAIN s.similar[k] :
              NotBelow(ratio(s.similar[k][i], k), sim_slider)

\* a full list of 3 suggestions whose similarity equals the threshold
C10_Witness ==
  /\ last.handler = "recompute"
  /\ list_sim # <<>>
  /\ \E k \in Range(list_add) :
       LET v == find_similar(k, RegistryNames, sim_slider)
       IN /\ Len(v) = MaxMatches
          /\ NotBelow(ratio(v[1], k), sim_slider)
          /\ ~Exceeds(ratio(v[1], k), sim_slider)

====
